---- MODULE Spec2Model ----
(***************************************************************************)
(* A model of the Bindle invoice (signing and verification) and of the     *)
(* parcel upload protocol of the file provider.                            *)
(*                                                                         *)
(* Strings of the program are TLA+ strings, joined with \o.  Byte strings  *)
(* (keys, signature blocks) are records [kind, k, m]; a base64 text is a   *)
(* record [b64, bytes], decodable only when b64 is TRUE.  Ed25519 is the   *)
(* ideal scheme: a signature block verifies under a public key exactly     *)
(* when it was made by that key pair over the very same message.           *)
(***************************************************************************)
EXTENDS Integers, Sequences, FiniteSets, TLC

VARIABLES inv, lastOp, signedOver,
          invoices, parcelDat, uploading, phase, storeOp, index, creating,
          readers, local, inflight, upstream, populating,
          version, requirement, matched,
          document, loaded, groupOp,
          served, cmd, tasks, parcels, exported,
          request, routed

invoiceVars == <<inv, lastOp, signedOver>>

storeVars == <<invoices, parcelDat, uploading, phase, storeOp, index, creating>>

cacheVars == <<readers, local, inflight, upstream, populating>>

versionVars == <<version, requirement, matched>>

groupVars == <<document, loaded, groupOp>>

clientVars == <<served, cmd, tasks, parcels, exported>>

routeVars == <<request, routed>>

exceptInvoice == <<storeVars, cacheVars, versionVars, groupVars, clientVars, routeVars>>

exceptStore == <<invoiceVars, cacheVars, versionVars, groupVars, clientVars, routeVars>>

exceptCache == <<invoiceVars, storeVars, versionVars, groupVars, clientVars, routeVars>>

exceptVersion == <<invoiceVars, storeVars, cacheVars, groupVars, clientVars, routeVars>>

exceptGroup == <<invoiceVars, storeVars, cacheVars, versionVars, clientVars, routeVars>>

exceptClient ==
    <<invoiceVars, storeVars, cacheVars, versionVars, groupVars, routeVars>>

exceptRoute ==
    <<invoiceVars, storeVars, cacheVars, versionVars, groupVars, clientVars>>

vars == <<invoiceVars, storeVars, cacheVars, versionVars, groupVars, clientVars, routeVars>>

(***************************************************************************)
(* Bounds of the model.                                                    *)
(***************************************************************************)
NumKeys == 2
MaxParcels == 2
MaxSigs == 2
NumReaders == 2
MaxNumber == 3
MaxSegments == 5

(***************************************************************************)
(* Option<T> and Result<T, E>.                                             *)
(***************************************************************************)
None == [some |-> FALSE, val |-> <<>>]

Some(v) == [some |-> TRUE, val |-> v]

Ok == <<"Ok">>

Err(kind, key) == <<kind, key>>

IsErr(r) == r[1] # "Ok"

(***************************************************************************)
(* Input domains.                                                          *)
(***************************************************************************)
Keypairs == 1..NumKeys

SignerNames == {"matt", "notmatt"}

SignatureRole == {"Creator", "Proxy", "Host"}

Signers == {<<"matt", "Creator">>, <<"notmatt", "Proxy">>, <<"notmatt", "Host">>}

Sha256Strings == {"aaa", "aaa\naaa"}

Clock == {-1, 1611960337}

Keyrings == SUBSET Keypairs

(***************************************************************************)
(* Bytes, base64 and Ed25519.                                              *)
(***************************************************************************)
PublicBytes(k) == [kind |-> "pk", k |-> k, m |-> ""]

Ed25519Sign(k, msg) == [kind |-> "sig", k |-> k, m |-> msg]

Junk(n) == [kind |-> "junk", k |-> n, m |-> ""]

BytesLen(b) == CASE b.kind = "pk" -> 32
                 [] b.kind = "sig" -> 64
                 [] OTHER -> b.k

base64_encode(b) == [b64 |-> TRUE, bytes |-> b]

NotBase64 == [b64 |-> FALSE, bytes |-> Junk(0)]

base64_decode(s) == IF s.b64 THEN Some(s.bytes) ELSE None

PublicKey_from_bytes(b) == IF b.kind = "pk" THEN Some(b.k) ELSE None

EdSignature_try_into(b) == IF BytesLen(b) = 64 THEN Some(b) ELSE None

verify_strict(k, msg, sig) == sig.kind = "sig" /\ sig.k = k /\ sig.m = msg

(***************************************************************************)
(* Invoice::cleartext                                                      *)
(***************************************************************************)
RECURSIVE Join(_, _)
Join(buf, sep) ==
    IF Len(buf) = 0 THEN ""
    ELSE IF Len(buf) = 1 THEN buf[1]
    ELSE buf[1] \o sep \o Join(Tail(buf), sep)

RoleToString(role) == CASE role = "Creator" -> "creator"
                        [] role = "Proxy" -> "proxy"
                        [] role = "Host" -> "host"

(* cleartext without the "~" that ends the header. *)
cleartext_without_tilde(self, by, role) ==
    LET buf == <<by, self.name, self.version, RoleToString(role)>>
        list == IF self.parcel.some THEN self.parcel.val ELSE <<>>
    IN  Join(buf \o list, "\n")

cleartext(self, by, role) ==
    LET buf == <<by, self.name, self.version, RoleToString(role), "~">>
        list == IF self.parcel.some THEN self.parcel.val ELSE <<>>
    IN  Join(buf \o list, "\n")

(***************************************************************************)
(* Invoice::sign.  Returns the result and the invoice after the call.      *)
(***************************************************************************)
HasKey(sigs, encoded_key) == \E i \in 1..Len(sigs) : sigs[i].key = encoded_key

(* sign without the search for the key among the signatures. *)
sign_unchecked(self, signer_name, signer_role, key, now) ==
    LET encoded_key == base64_encode(PublicBytes(key))
        text == cleartext(self, signer_name, signer_role)
        signature_entry == [by |-> signer_name,
                            key |-> encoded_key,
                            signature |-> base64_encode(Ed25519Sign(key, text)),
                            role |-> signer_role,
                            at |-> now]
    IN  IF now < 0
        THEN [result |-> Err("SigningFailed", NotBase64), inv |-> self]
        ELSE [result |-> Ok,
              inv |-> [self EXCEPT !.signature =
                          IF self.signature.some
                          THEN Some(Append(self.signature.val, signature_entry))
                          ELSE Some(<<signature_entry>>)]]

(* sign over a cleartext that names the role as written, not lower-cased. *)
sign_role_as_written(self, signer_name, signer_role, key, now) ==
    LET encoded_key == base64_encode(PublicBytes(key))
        buf == <<signer_name, self.name, self.version, signer_role, "~">>
        list == IF self.parcel.some THEN self.parcel.val ELSE <<>>
        text == Join(buf \o list, "\n")
        signature_entry == [by |-> signer_name,
                            key |-> encoded_key,
                            signature |-> base64_encode(Ed25519Sign(key, text)),
                            role |-> signer_role,
                            at |-> now]
    IN  IF self.signature.some /\ HasKey(self.signature.val, encoded_key)
        THEN [result |-> Err("DuplicateSignature", NotBase64), inv |-> self]
        ELSE IF now < 0
        THEN [result |-> Err("SigningFailed", NotBase64), inv |-> self]
        ELSE [result |-> Ok,
              inv |-> [self EXCEPT !.signature =
                          IF self.signature.some
                          THEN Some(Append(self.signature.val, signature_entry))
                          ELSE Some(<<signature_entry>>)]]

(* sign that puts the new entry in front of the signatures already there. *)
sign_in_front(self, signer_name, signer_role, key, now) ==
    LET encoded_key == base64_encode(PublicBytes(key))
        text == cleartext(self, signer_name, signer_role)
        signature_entry == [by |-> signer_name,
                            key |-> encoded_key,
                            signature |-> base64_encode(Ed25519Sign(key, text)),
                            role |-> signer_role,
                            at |-> now]
    IN  IF self.signature.some /\ HasKey(self.signature.val, encoded_key)
        THEN [result |-> Err("DuplicateSignature", NotBase64), inv |-> self]
        ELSE IF now < 0
        THEN [result |-> Err("SigningFailed", NotBase64), inv |-> self]
        ELSE [result |-> Ok,
              inv |-> [self EXCEPT !.signature =
                          IF self.signature.some
                          THEN Some(<<signature_entry>> \o self.signature.val)
                          ELSE Some(<<signature_entry>>)]]

(* sign that looks for the key only after it has pushed the entry. *)
sign_then_check(self, signer_name, signer_role, key, now) ==
    LET encoded_key == base64_encode(PublicBytes(key))
        text == cleartext(self, signer_name, signer_role)
        signature_entry == [by |-> signer_name,
                            key |-> encoded_key,
                            signature |-> base64_encode(Ed25519Sign(key, text)),
                            role |-> signer_role,
                            at |-> now]
        pushed == [self EXCEPT !.signature =
                      IF self.signature.some
                      THEN Some(Append(self.signature.val, signature_entry))
                      ELSE Some(<<signature_entry>>)]
    IN  IF self.signature.some /\ HasKey(self.signature.val, encoded_key)
        THEN [result |-> Err("DuplicateSignature", NotBase64), inv |-> pushed]
        ELSE IF now < 0
        THEN [result |-> Err("SigningFailed", NotBase64), inv |-> self]
        ELSE [result |-> Ok, inv |-> pushed]

sign(self, signer_name, signer_role, key, now) ==
    LET encoded_key == base64_encode(PublicBytes(key))
        text == cleartext(self, signer_name, signer_role)
        signature_entry == [by |-> signer_name,
                            key |-> encoded_key,
                            signature |-> base64_encode(Ed25519Sign(key, text)),
                            role |-> signer_role,
                            at |-> now]
    IN  IF self.signature.some /\ HasKey(self.signature.val, encoded_key)
        THEN [result |-> Err("DuplicateSignature", NotBase64), inv |-> self]
        ELSE IF now < 0
        THEN [result |-> Err("SigningFailed", NotBase64), inv |-> self]
        ELSE [result |-> Ok,
              inv |-> [self EXCEPT !.signature =
                          IF self.signature.some
                          THEN Some(Append(self.signature.val, signature_entry))
                          ELSE Some(<<signature_entry>>)]]

(***************************************************************************)
(* Invoice::verify_signature and Invoice::verify.                          *)
(***************************************************************************)
(* verify_signature that accepts a block verify_strict rejects. *)
verify_signature_lenient(sig, text) ==
    LET pk == base64_decode(sig.key)
        sig_block == base64_decode(sig.signature)
    IN  IF ~pk.some THEN Err("CorruptKey", sig.key)
        ELSE IF ~sig_block.some THEN Err("CorruptSignature", sig.key)
        ELSE LET pubkey == PublicKey_from_bytes(pk.val)
                 ed_sig == EdSignature_try_into(sig_block.val)
             IN  IF ~pubkey.some THEN Err("CorruptKey", sig.key)
                 ELSE IF ~ed_sig.some THEN Err("CorruptSignature", sig.key)
                 ELSE Ok

(* verify_signature whose CorruptSignature carries the signature string. *)
verify_signature_block(sig, text) ==
    LET pk == base64_decode(sig.key)
        sig_block == base64_decode(sig.signature)
    IN  IF ~pk.some THEN Err("CorruptKey", sig.key)
        ELSE IF ~sig_block.some THEN Err("CorruptSignature", sig.signature)
        ELSE LET pubkey == PublicKey_from_bytes(pk.val)
                 ed_sig == EdSignature_try_into(sig_block.val)
             IN  IF ~pubkey.some THEN Err("CorruptKey", sig.key)
                 ELSE IF ~ed_sig.some THEN Err("CorruptSignature", sig.signature)
                 ELSE IF ~verify_strict(pubkey.val, text, ed_sig.val)
                 THEN Err("Unverified", sig.key)
                 ELSE Ok

verify_signature(sig, text) ==
    LET pk == base64_decode(sig.key)
        sig_block == base64_decode(sig.signature)
    IN  IF ~pk.some THEN Err("CorruptKey", sig.key)
        ELSE IF ~sig_block.some THEN Err("CorruptSignature", sig.key)
        ELSE LET pubkey == PublicKey_from_bytes(pk.val)
                 ed_sig == EdSignature_try_into(sig_block.val)
             IN  IF ~pubkey.some THEN Err("CorruptKey", sig.key)
                 ELSE IF ~ed_sig.some THEN Err("CorruptSignature", sig.key)
                 ELSE IF ~verify_strict(pubkey.val, text, ed_sig.val)
                 THEN Err("Unverified", sig.key)
                 ELSE Ok

RECURSIVE VerifyLoop(_, _, _, _)
VerifyLoop(self, keyring, i, known_key) ==
    IF i > Len(self.signature.val)
    THEN IF ~known_key THEN Err("NoKnownKey", NotBase64) ELSE Ok
    ELSE LET s == self.signature.val[i]
             checked == verify_signature(s, cleartext(self, s.by, s.role))
         IN  IF IsErr(checked) THEN checked
             ELSE LET pubkey == base64_decode(s.key)
                  IN  IF ~pubkey.some THEN Err("CorruptKey", s.key)
                      ELSE LET pko == PublicKey_from_bytes(pubkey.val)
                           IN  IF ~pko.some THEN Err("CorruptKey", s.key)
                               ELSE VerifyLoop(self, keyring, i + 1,
                                               known_key \/ pko.val \in keyring)

(* verify that takes a key for known before looking at any signature. *)
verify_any_key(self, keyring) ==
    IF ~self.signature.some THEN Ok
    ELSE VerifyLoop(self, keyring, 1, TRUE)

(* verify that refuses the signatures of a yanked invoice. *)
verify_unless_yanked(self, keyring) ==
    IF ~self.signature.some THEN Ok
    ELSE IF self.yanked = Some(TRUE) THEN Err("NoKnownKey", NotBase64)
    ELSE VerifyLoop(self, keyring, 1, FALSE)

verify(self, keyring) ==
    IF ~self.signature.some THEN Ok
    ELSE VerifyLoop(self, keyring, 1, FALSE)

(***************************************************************************)
(* The file provider (section 4.3 and 4.8 of the specification): for each  *)
(* id the stored invoice.toml, the files of its parcel.dat directory, the  *)
(* upload that holds the lock of the id, the state of the upload protocol  *)
(* and the outcome of the last call.                                       *)
(***************************************************************************)
Ids == {"a/1.0.0", "b/1.0.0"}

Blobs == {"x", "yy"}

Sha256(bytes) == CASE bytes = "x" -> "2d71"
                   [] bytes = "yy" -> "3ffd"

ByteCount(bytes) == CASE bytes = "x" -> 1
                      [] bytes = "yy" -> 2

Label(sha256, size) == [sha256 |-> sha256, size |-> size]

Payloads == {<<>>,
             <<Label("2d71", 1), Label("3ffd", 2)>>,
             <<Label("2d71", 1), Label("deadbeef", 1)>>,
             <<Label("3ffd", 7)>>}

Digests == {Sha256(b) : b \in Blobs} \cup {"deadbeef", "0000"}

Absent == [state |-> "Absent", set |-> {}]

AwaitingParcels(set) == [state |-> "AwaitingParcels", set |-> set]

Complete == [state |-> "Complete", set |-> {}]

EmptyStore ==
    /\ invoices = [id \in Ids |-> None]
    /\ parcelDat = [id \in Ids |-> {}]
    /\ uploading = [id \in Ids |-> None]
    /\ phase = [id \in Ids |-> Absent]
    /\ index = {}
    /\ creating = [id \in Ids |-> None]
    /\ storeOp = [op |-> "none", id |-> "", sha256 |-> "", result |-> "Ok",
                  missing |-> <<>>, invoice |-> None, payload |-> None]

(***************************************************************************)
(* The read-through cache (section 4.6): the readers of the cache, what    *)
(* the local provider holds, the map of in-flight fetches, the upstream    *)
(* provider (what it holds, whether it answers, the requests it is         *)
(* serving) and the populate tasks spawned and failed.                     *)
(***************************************************************************)
Readers == 1..NumReaders

Keys == {<<"invoice", "a/1.0.0">>, <<"parcel", "2d71">>}

Content(key) == <<"content of", key[2]>>

Idle == [pc |-> "idle", key |-> <<>>, result |-> <<>>, via |-> "none"]

IdleCache ==
    /\ readers = [r \in Readers |-> Idle]
    /\ local = [k \in Keys |-> None]
    /\ inflight = [k \in Keys |-> None]
    /\ upstream = [has |-> Keys, up |-> TRUE, serving |-> [k \in Keys |-> {}]]
    /\ populating = [tasks |-> {}, failed |-> {}]

(***************************************************************************)
(* A version and a requirement string handed to version_compare, and what  *)
(* it returned (matched); a TOML document handed to toml::from_str, the    *)
(* invoice it gave (loaded) and the last question asked of a parcel of     *)
(* that invoice (groupOp).                                                 *)
(***************************************************************************)
NoVersion ==
    /\ version = <<1, 2, 3>>
    /\ requirement = <<>>
    /\ matched = None

(***************************************************************************)
(* The client: the invoice the provider behind the cache serves for the    *)
(* bindle id asked for (served), the command run and its result (cmd), the *)
(* parcel fetches of get (tasks), the shared map of fetched parcels with   *)
(* the number of references to it (parcels) and the standalone bindle      *)
(* written (exported).                                                     *)
(***************************************************************************)
NoCommand ==
    [op |-> "none", yanked |-> FALSE, export |-> FALSE, pc |-> "done",
     via |-> "none", invoice |-> None, result |-> <<"Ok">>]

NoParcels == [keys |-> {}, refs |-> 0]

NoRequest ==
    /\ request = [method |-> "GET", path |-> <<>>, query |-> ""]
    /\ routed = None

NoClient ==
    /\ served = None
    /\ cmd = NoCommand
    /\ tasks = <<>>
    /\ parcels = NoParcels
    /\ exported = None

NoGroupOp == [op |-> "none", parcel |-> 0, group |-> "", result |-> FALSE]

NoDocument ==
    /\ document = [group |-> None, parcel |-> None, unknown |-> FALSE]
    /\ loaded = None
    /\ groupOp = NoGroupOp

(***************************************************************************)
(* The state: one invoice held in memory (inv), the last call made on it   *)
(* (lastOp) and, for every entry of its signature list, whether sign made  *)
(* it and then the key pair used and the parcel list signed over           *)
(* (signedOver, a history variable).                                       *)
(***************************************************************************)
(* An invoice as the tests write it: the id, the parcels (the sha256 of each *)
(* label in parcel, the rest of each label in labels) and the fields the   *)
(* signing code never reads.                                               *)
DefaultLabel == [name |-> "telescope.gif", mediaType |-> "image/gif"]

Aricebo(parcel) ==
    [name |-> "aricebo", version |-> "1.2.3", parcel |-> parcel,
     labels |-> [i \in 1..(IF parcel.some THEN Len(parcel.val) ELSE 0)
                    |-> DefaultLabel],
     signature |-> None, yanked |-> None, annotations |-> None,
     group |-> None]

NoOp == [op |-> "load", result |-> Ok, key |-> 0, by |-> "", role |-> ""]

Edited == [op |-> "edit", result |-> Ok, key |-> 0, by |-> "", role |-> ""]

BySign(key, list) == [signed |-> TRUE, key |-> key, parcels |-> list]

FromToml == [signed |-> FALSE, key |-> 0, parcels |-> <<>>]

ParcelList(self) == IF self.parcel.some THEN self.parcel.val ELSE <<>>

SignatureList(self) == IF self.signature.some THEN self.signature.val ELSE <<>>

Init ==
    /\ \E p \in {None, Some(<<>>), Some(<<"aaa">>)} :
          inv = Aricebo(p)
    /\ lastOp = NoOp
    /\ signedOver = <<>>
    /\ EmptyStore
    /\ IdleCache
    /\ NoVersion
    /\ NoDocument
    /\ NoClient
    /\ NoRequest

(***************************************************************************)
(* invoice.sign(signer_name, signer_role, &keypair)                        *)
(***************************************************************************)
Sign ==
    \E who \in Signers, key \in Keypairs, now \in Clock :
        LET r == sign(inv, who[1], who[2], key, now)
        IN  /\ Len(SignatureList(r.inv)) <= MaxSigs
            /\ inv' = r.inv
            /\ lastOp' = [op |-> "sign", result |-> r.result, key |-> key,
                          by |-> who[1], role |-> who[2]]
            /\ signedOver' = IF r.result = Ok
                             THEN Append(signedOver, BySign(key, ParcelList(inv)))
                             ELSE signedOver
            /\ UNCHANGED exceptInvoice

(***************************************************************************)
(* Changes made to the parcel list of the invoice between calls (the field *)
(* is public and is read back from TOML).                                  *)
(***************************************************************************)
PushParcel ==
    \E sha \in Sha256Strings :
        /\ Len(ParcelList(inv)) < MaxParcels
        /\ inv' = [inv EXCEPT !.parcel = Some(Append(ParcelList(inv), sha)),
                              !.labels = Append(inv.labels, DefaultLabel)]
        /\ lastOp' = Edited
        /\ UNCHANGED signedOver
        /\ UNCHANGED exceptInvoice

RemoveParcel ==
    \E i \in 1..Len(ParcelList(inv)) :
        /\ inv' = [inv EXCEPT !.parcel =
                      Some(SubSeq(inv.parcel.val, 1, i - 1)
                           \o SubSeq(inv.parcel.val, i + 1, Len(inv.parcel.val))),
                      !.labels =
                      SubSeq(inv.labels, 1, i - 1)
                          \o SubSeq(inv.labels, i + 1, Len(inv.labels))]
        /\ lastOp' = Edited
        /\ UNCHANGED signedOver
        /\ UNCHANGED exceptInvoice

SetSha256 ==
    \E i \in 1..Len(ParcelList(inv)), sha \in Sha256Strings :
        /\ inv.parcel.val[i] # sha
        /\ inv' = [inv EXCEPT !.parcel = Some([inv.parcel.val EXCEPT ![i] = sha])]
        /\ lastOp' = Edited
        /\ UNCHANGED signedOver
        /\ UNCHANGED exceptInvoice

SwapParcels ==
    \E i \in 1..Len(ParcelList(inv)), j \in 1..Len(ParcelList(inv)) :
        /\ i < j
        /\ inv.parcel.val[i] # inv.parcel.val[j]
        /\ inv' = [inv EXCEPT !.parcel =
                      Some([inv.parcel.val EXCEPT ![i] = inv.parcel.val[j],
                                                  ![j] = inv.parcel.val[i]]),
                      !.labels =
                      [inv.labels EXCEPT ![i] = inv.labels[j],
                                         ![j] = inv.labels[i]]]
        /\ lastOp' = Edited
        /\ UNCHANGED signedOver
        /\ UNCHANGED exceptInvoice

(***************************************************************************)
(* A [[signature]] block read from TOML: any strings, made by anyone.  The *)
(* signature string is a block some key pair made over this invoice, a     *)
(* forged 64-byte block, a block of the wrong length, or not base64; the   *)
(* key string is a public key, bytes that are no key, or not base64.  An   *)
(* empty `signature = []` array is read back as Some(<<>>).                *)
(***************************************************************************)
KeyStrings ==
    {base64_encode(PublicBytes(k)) : k \in Keypairs}
        \cup {base64_encode(Junk(15)), NotBase64}

SignatureStrings(self, by, role) ==
    {base64_encode(Ed25519Sign(k, cleartext(self, by, role))) : k \in Keypairs}
        \cup {base64_encode(Junk(64)), base64_encode(Junk(15)), NotBase64}

LoadSignature ==
    \E who \in Signers, ks \in KeyStrings :
      \E ss \in SignatureStrings(inv, who[1], who[2]) :
        /\ Len(SignatureList(inv)) < MaxSigs
        /\ inv' = [inv EXCEPT !.signature =
                      Some(Append(SignatureList(inv),
                                  [by |-> who[1], key |-> ks, signature |-> ss,
                                   role |-> who[2], at |-> 0]))]
        /\ lastOp' = NoOp
        /\ signedOver' = Append(signedOver, FromToml)
        /\ UNCHANGED exceptInvoice

LoadEmptySignatures ==
    /\ ~inv.signature.some
    /\ inv' = [inv EXCEPT !.signature = Some(<<>>)]
    /\ lastOp' = NoOp
    /\ UNCHANGED signedOver
    /\ UNCHANGED exceptInvoice

(***************************************************************************)
(* The Invoice of src/lib.rs: its cleartext and its sign, which pushes the *)
(* entry without looking at the signatures already there.                  *)
(***************************************************************************)
DebugLower(role) == CASE role = "Creator" -> "creator"
                      [] role = "Proxy" -> "proxy"
                      [] role = "Host" -> "host"

lib_cleartext(self, by, role) ==
    LET buf == <<by, self.name, self.version, DebugLower(role), "~">>
        list == IF self.parcel.some THEN self.parcel.val ELSE <<>>
    IN  Join(buf \o list, "\n")

lib_sign(self, signer_name, signer_role, key) ==
    LET text == lib_cleartext(self, signer_name, signer_role)
        signature_entry == [by |-> signer_name,
                            key |-> base64_encode(PublicBytes(key)),
                            signature |-> base64_encode(Ed25519Sign(key, text)),
                            role |-> signer_role]
    IN  [result |-> Ok,
         inv |-> [self EXCEPT !.signature =
                     IF self.signature.some
                     THEN Some(Append(self.signature.val, signature_entry))
                     ELSE Some(<<signature_entry>>)]]

LibSign ==
    \E who \in Signers, key \in Keypairs :
        LET r == lib_sign(inv, who[1], who[2], key)
        IN  /\ Len(SignatureList(r.inv)) <= MaxSigs
            /\ inv' = r.inv
            /\ lastOp' = [op |-> "sign", result |-> r.result, key |-> key,
                          by |-> who[1], role |-> who[2]]
            /\ signedOver' = Append(signedOver, BySign(key, ParcelList(inv)))
            /\ UNCHANGED exceptInvoice

(***************************************************************************)
(* Changes to the fields cleartext does not read: the yanked flag, the     *)
(* annotations, the groups, the label of a parcel besides its sha256 and   *)
(* the time of a signature.  All are public fields, read back from TOML.   *)
(***************************************************************************)
Toggle(field, value) == IF field = None THEN Some(value) ELSE None

OtherLabel == [name |-> "telescope.txt", mediaType |-> "text/plain"]

SetYanked ==
    /\ inv' = [inv EXCEPT !.yanked = Toggle(inv.yanked, TRUE)]
    /\ lastOp' = Edited
    /\ UNCHANGED signedOver
    /\ UNCHANGED exceptInvoice

SetAnnotations ==
    /\ inv' = [inv EXCEPT !.annotations = Toggle(inv.annotations, "v1")]
    /\ lastOp' = Edited
    /\ UNCHANGED signedOver
    /\ UNCHANGED exceptInvoice

SetGroup ==
    /\ inv' = [inv EXCEPT !.group = Toggle(inv.group, <<"images">>)]
    /\ lastOp' = Edited
    /\ UNCHANGED signedOver
    /\ UNCHANGED exceptInvoice

SetLabel ==
    \E i \in 1..Len(inv.labels) :
        /\ inv' = [inv EXCEPT !.labels[i] =
                      IF inv.labels[i] = DefaultLabel THEN OtherLabel
                      ELSE DefaultLabel]
        /\ lastOp' = Edited
        /\ UNCHANGED signedOver
        /\ UNCHANGED exceptInvoice

SetAt ==
    \E i \in 1..Len(SignatureList(inv)) :
        /\ inv' = [inv EXCEPT !.signature.val[i].at =
                      IF inv.signature.val[i].at = 0
                      THEN 1611960337 ELSE 0]
        /\ lastOp' = Edited
        /\ UNCHANGED signedOver
        /\ UNCHANGED exceptInvoice

NextFields ==
    \/ Sign
    \/ SetSha256
    \/ SetYanked
    \/ SetAnnotations
    \/ SetGroup
    \/ SetLabel
    \/ SetAt

(* The invoice of test signing_and_verifying after its first sign. *)
FieldsInit ==
    /\ inv = sign(Aricebo(Some(<<"aaa">>)), "matt", "Creator", 1, 1611960337).inv
    /\ lastOp = [op |-> "sign", result |-> Ok, key |-> 1, by |-> "matt",
                 role |-> "Creator"]
    /\ signedOver = <<BySign(1, <<"aaa">>)>>
    /\ EmptyStore
    /\ IdleCache
    /\ NoVersion
    /\ NoDocument
    /\ NoClient
    /\ NoRequest

SpecFields == FieldsInit /\ [][NextFields]_vars

(***************************************************************************)
(* Spec: an invoice that is signed and whose parcel list is changed.       *)
(* SpecLoad: an invoice whose signature blocks are read from TOML, and     *)
(* that is signed.  SpecLib: the Invoice of src/lib.rs.                    *)
(***************************************************************************)
Next ==
    \/ Sign
    \/ PushParcel
    \/ RemoveParcel
    \/ SetSha256
    \/ SwapParcels

Spec == Init /\ [][Next]_vars

NextLoad ==
    \/ Sign
    \/ LoadSignature
    \/ LoadEmptySignatures

SpecLoad == Init /\ [][NextLoad]_vars

NextLib ==
    \/ LibSign
    \/ PushParcel
    \/ RemoveParcel

SpecLib == Init /\ [][NextLib]_vars
(***************************************************************************)
(* The file provider's operations.                                         *)
(***************************************************************************)
Locked(id) == uploading[id].some \/ creating[id].some

File(name, tmp, data) == [name |-> name, tmp |-> tmp, data |-> data]

Stored(id, sha256) == \E f \in parcelDat[id] : ~f.tmp /\ f.name = sha256

Declares(invoice, sha256) ==
    \E i \in 1..Len(invoice.parcel) : invoice.parcel[i].sha256 = sha256

DeclaredSize(invoice, sha256) ==
    LET i == CHOOSE i \in 1..Len(invoice.parcel) :
                 /\ invoice.parcel[i].sha256 = sha256
                 /\ \A j \in 1..(i - 1) : invoice.parcel[j].sha256 # sha256
    IN  invoice.parcel[i].size

(* The missing parcels, stopping at the first one found. *)
FirstMissingLabel(files, parcel) ==
    LET absent == {i \in 1..Len(parcel) :
                      ~\E f \in files : ~f.tmp /\ f.name = parcel[i].sha256}
    IN  IF absent = {} THEN <<>>
        ELSE <<parcel[CHOOSE i \in absent : \A j \in absent : i <= j]>>

RECURSIVE MissingLabels(_, _)
MissingLabels(files, parcel) ==
    IF parcel = <<>> THEN <<>>
    ELSE LET rest == MissingLabels(files, Tail(parcel))
         IN  IF \E f \in files : ~f.tmp /\ f.name = Head(parcel).sha256
             THEN rest
             ELSE <<Head(parcel)>> \o rest

Sha256s(labels) == {labels[i].sha256 : i \in 1..Len(labels)}

PhaseFor(set) == IF set = {} THEN Complete ELSE AwaitingParcels(set)

Outcome(op, id, sha256, result, missing, invoice) ==
    [op |-> op, id |-> id, sha256 |-> sha256, result |-> result,
     missing |-> missing, invoice |-> invoice, payload |-> None]

Created(id, payload, result, missing, invoice) ==
    [Outcome("create_invoice", id, "", result, missing, invoice)
        EXCEPT !.payload = Some(payload)]

(***************************************************************************)
(* create_invoice, the whole call under the lock of the id: an existing    *)
(* invoice.toml is compared with the payload; otherwise the payload is     *)
(* written and renamed, then indexed (the file is deleted again when the   *)
(* index refuses it), and the missing parcels are computed.                *)
(***************************************************************************)
(* An existing invoice.toml fails the call whatever it holds. *)
invoice_exists_always(stored, invoice) == "InvoiceExists"

invoice_exists(stored, invoice) ==
    IF stored = invoice THEN "Ok" ELSE "InvoiceExists"

CreateInvoice ==
    \E id \in Ids, parcel \in Payloads, indexed \in BOOLEAN :
        LET invoice == [parcel |-> parcel, yanked |-> FALSE]
            missing == MissingLabels(parcelDat[id], parcel)
        IN  /\ ~Locked(id)
            /\ IF invoices[id].some
               THEN /\ storeOp' = IF invoice_exists(invoices[id].val, invoice) = "Ok"
                                  THEN Created(id, invoice, "Ok", missing,
                                               invoices[id])
                                  ELSE Created(id, invoice, "InvoiceExists",
                                               <<>>, None)
                    /\ UNCHANGED <<invoices, phase, index, creating>>
               ELSE IF indexed
               THEN /\ invoices' = [invoices EXCEPT ![id] = Some(invoice)]
                    /\ index' = index \cup {id}
                    /\ phase' = [phase EXCEPT ![id] = PhaseFor(Sha256s(missing))]
                    /\ storeOp' = Created(id, invoice, "Ok", missing, Some(invoice))
                    /\ UNCHANGED creating
               ELSE /\ storeOp' = Created(id, invoice, "Io", <<>>, None)
                    /\ UNCHANGED <<invoices, phase, index, creating>>
            /\ UNCHANGED <<parcelDat, uploading>>
            /\ UNCHANGED exceptStore

(***************************************************************************)
(* yank_invoice: sets yanked in the invoice and rewrites the file under    *)
(* the lock.                                                               *)
(***************************************************************************)
(* yank that flips the flag. *)
yank_flip(invoice) == [invoice EXCEPT !.yanked = ~invoice.yanked]

yank(invoice) == [invoice EXCEPT !.yanked = TRUE]

YankInvoice ==
    \E id \in Ids :
        /\ ~Locked(id)
        /\ IF invoices[id].some
           THEN /\ invoices' = [invoices EXCEPT ![id] =
                                   Some(yank(invoices[id].val))]
                /\ storeOp' = Outcome("yank_invoice", id, "", "Ok", <<>>, None)
           ELSE /\ storeOp' = Outcome("yank_invoice", id, "", "NotFound", <<>>, None)
                /\ UNCHANGED invoices
        /\ UNCHANGED <<parcelDat, uploading, phase, index, creating>>
        /\ UNCHANGED exceptStore

(***************************************************************************)
(* get_yanked_invoice and get_invoice: the reads take no lock.             *)
(***************************************************************************)
get_yanked_invoice(stored) ==
    IF ~stored.some THEN [result |-> "NotFound", invoice |-> None]
    ELSE [result |-> "Ok", invoice |-> stored]

(* get_invoice without the yank filter. *)
get_invoice_unfiltered(stored) == get_yanked_invoice(stored)

get_invoice(stored) ==
    LET got == get_yanked_invoice(stored)
    IN  IF got.result = "Ok" /\ got.invoice.val.yanked
        THEN [result |-> "Yanked", invoice |-> None]
        ELSE got

GetYankedInvoice ==
    \E id \in Ids :
        LET got == get_yanked_invoice(invoices[id])
        IN  /\ storeOp' = Outcome("get_yanked_invoice", id, "", got.result, <<>>,
                                  got.invoice)
            /\ UNCHANGED <<invoices, parcelDat, uploading, phase, index, creating>>
            /\ UNCHANGED exceptStore

GetInvoice ==
    \E id \in Ids :
        LET got == get_invoice(invoices[id])
        IN  /\ storeOp' = Outcome("get_invoice", id, "", got.result, <<>>, got.invoice)
            /\ UNCHANGED <<invoices, parcelDat, uploading, phase, index, creating>>
            /\ UNCHANGED exceptStore

(***************************************************************************)
(* create_parcel, in two steps: the bytes are streamed to <sha256>.tmp     *)
(* under the lock of the id, then checked and renamed or unlinked.         *)
(***************************************************************************)
(* The invoice exists; its labels are not searched for the sha256. *)
references_id_only(stored, sha256) == stored.some

references(stored, sha256) == stored.some /\ Declares(stored.val, sha256)

CreateParcelWrite ==
    \E id \in Ids, sha256 \in Digests, bytes \in Blobs :
        /\ ~Locked(id)
        /\ IF references(invoices[id], sha256)
           THEN /\ uploading' = [uploading EXCEPT ![id] =
                                    Some([sha256 |-> sha256, bytes |-> bytes])]
                /\ parcelDat' = [parcelDat EXCEPT ![id] =
                                    @ \cup {File(sha256, TRUE, bytes)}]
                /\ storeOp' = Outcome("create_parcel", id, sha256, "Writing", <<>>, None)
           ELSE /\ storeOp' = Outcome("create_parcel", id, sha256, "InvoiceNotFound", <<>>, None)
                /\ UNCHANGED <<uploading, parcelDat>>
        /\ UNCHANGED <<invoices, phase, index, creating>>
        /\ UNCHANGED exceptStore

(* create_parcel that checks the size but not the digest. *)
create_parcel_size_only(invoice, sha256, bytes) ==
    IF ByteCount(bytes) # DeclaredSize(invoice, sha256) THEN "SizeMismatch"
    ELSE "Ok"

create_parcel_check(invoice, sha256, bytes) ==
    IF Sha256(bytes) # sha256 THEN "DigestMismatch"
    ELSE IF ByteCount(bytes) # DeclaredSize(invoice, sha256) THEN "SizeMismatch"
    ELSE "Ok"

CreateParcelFinish ==
    \E id \in Ids :
        /\ uploading[id].some
        /\ LET up == uploading[id].val
               tmp == File(up.sha256, TRUE, up.bytes)
               result == create_parcel_check(invoices[id].val, up.sha256, up.bytes)
               renamed == {f \in parcelDat[id] \ {tmp} : f.name # up.sha256}
                              \cup {File(up.sha256, FALSE, up.bytes)}
               files == IF result = "Ok" THEN renamed ELSE parcelDat[id] \ {tmp}
           IN  /\ parcelDat' = [parcelDat EXCEPT ![id] = files]
               /\ phase' = [phase EXCEPT ![id] =
                               IF result = "Ok" /\ up.sha256 \in phase[id].set
                               THEN PhaseFor(phase[id].set \ {up.sha256})
                               ELSE phase[id]]
               /\ storeOp' = Outcome("create_parcel", id, up.sha256, result, <<>>, None)
        /\ uploading' = [uploading EXCEPT ![id] = None]
        /\ UNCHANGED <<invoices, index, creating>>
        /\ UNCHANGED exceptStore

StoreInit ==
    /\ inv = Aricebo(None)
    /\ lastOp = NoOp
    /\ signedOver = <<>>
    /\ EmptyStore
    /\ IdleCache
    /\ NoVersion
    /\ NoDocument
    /\ NoClient
    /\ NoRequest

NextStore ==
    \/ CreateInvoice
    \/ YankInvoice
    \/ GetInvoice
    \/ GetYankedInvoice
    \/ CreateParcelWrite
    \/ CreateParcelFinish

SpecStore == StoreInit /\ [][NextStore]_vars

(***************************************************************************)
(* create_invoice step by step, as other calls on the same id see it: the  *)
(* lock is taken and the payload written to invoice.toml.tmp; the file is  *)
(* renamed to invoice.toml; the invoice is inserted into the index, or the *)
(* file deleted when the index refuses it; the lock is released with the   *)
(* result.  The reads take no lock.                                        *)
(***************************************************************************)
CreateInvoiceWrite ==
    \E id \in Ids, parcel \in Payloads :
        LET invoice == [parcel |-> parcel, yanked |-> FALSE]
            missing == MissingLabels(parcelDat[id], parcel)
        IN  /\ ~Locked(id)
            /\ IF invoices[id].some
               THEN /\ storeOp' = IF invoice_exists(invoices[id].val, invoice) = "Ok"
                                  THEN Created(id, invoice, "Ok", missing,
                                               invoices[id])
                                  ELSE Created(id, invoice, "InvoiceExists",
                                               <<>>, None)
                    /\ UNCHANGED creating
               ELSE /\ creating' = [creating EXCEPT ![id] =
                                       Some([invoice |-> invoice, step |-> "tmp"])]
                    /\ storeOp' = Created(id, invoice, "Writing", <<>>, None)
            /\ UNCHANGED <<invoices, parcelDat, uploading, phase, index>>
            /\ UNCHANGED exceptStore

CreateInvoiceRename ==
    \E id \in Ids :
        /\ creating[id].some
        /\ creating[id].val.step = "tmp"
        /\ invoices' = [invoices EXCEPT ![id] = Some(creating[id].val.invoice)]
        /\ creating' = [creating EXCEPT ![id] = Some([@.val EXCEPT !.step = "renamed"])]
        /\ UNCHANGED <<parcelDat, uploading, phase, index, storeOp>>
        /\ UNCHANGED exceptStore

CreateInvoiceIndex ==
    \E id \in Ids, indexed \in BOOLEAN :
        LET invoice == creating[id].val.invoice
            missing == MissingLabels(parcelDat[id], invoice.parcel)
        IN  /\ creating[id].some
            /\ creating[id].val.step = "renamed"
            /\ IF indexed
               THEN /\ index' = index \cup {id}
                    /\ phase' = [phase EXCEPT ![id] = PhaseFor(Sha256s(missing))]
                    /\ storeOp' = Created(id, invoice, "Ok", missing, Some(invoice))
                    /\ UNCHANGED invoices
               ELSE /\ invoices' = [invoices EXCEPT ![id] = None]
                    /\ storeOp' = Created(id, invoice, "Io", <<>>, None)
                    /\ UNCHANGED <<index, phase>>
            /\ creating' = [creating EXCEPT ![id] = None]
            /\ UNCHANGED <<parcelDat, uploading>>
            /\ UNCHANGED exceptStore

NextAtomic ==
    \/ CreateInvoiceWrite
    \/ CreateInvoiceRename
    \/ CreateInvoiceIndex
    \/ YankInvoice
    \/ GetInvoice
    \/ GetYankedInvoice
    \/ CreateParcelWrite
    \/ CreateParcelFinish

SpecAtomic == StoreInit /\ [][NextAtomic]_vars

(***************************************************************************)
(* The cache's read of a key (get_invoice, get_parcel, ...): the local     *)
(* provider first; on NotFound the in-flight map, under its mutex, and     *)
(* then either the upstream call or the wait for the fetch in flight; the  *)
(* fetched content is handed to a populate task.                           *)
(***************************************************************************)
CacheGet(r, k) ==
    /\ readers[r].pc = "idle"
    /\ readers' = [readers EXCEPT ![r] = [Idle EXCEPT !.pc = "local", !.key = k]]
    /\ UNCHANGED <<local, inflight, upstream, populating>>
    /\ UNCHANGED exceptCache

local_get(held) ==
    IF held.some THEN <<"Ok", held.val>> ELSE <<"NotFound">>

LocalRead(r) ==
    /\ readers[r].pc = "local"
    /\ \E answer \in {local_get(local[readers[r].key]), <<"Io">>} :
          readers' = [readers EXCEPT ![r] =
                         IF answer = <<"NotFound">>
                         THEN [@ EXCEPT !.pc = "miss"]
                         ELSE [@ EXCEPT !.pc = "done", !.result = answer,
                                        !.via = "local"]]
    /\ UNCHANGED <<local, inflight, upstream, populating>>
    /\ UNCHANGED exceptCache

(* Every reader that misses locally calls upstream itself. *)
in_flight_ignored(entry) == FALSE

in_flight(entry) == entry.some

AwaitOrFetch(r) ==
    LET k == readers[r].key
    IN  /\ readers[r].pc = "miss"
        /\ IF in_flight(inflight[k])
           THEN /\ readers' = [readers EXCEPT ![r].pc = "await"]
                /\ UNCHANGED <<inflight, upstream>>
           ELSE /\ readers' = [readers EXCEPT ![r].pc = "fetch"]
                /\ inflight' = [inflight EXCEPT ![k] = Some(r)]
                /\ upstream' = [upstream EXCEPT !.serving[k] = @ \cup {r}]
        /\ UNCHANGED <<local, populating>>
        /\ UNCHANGED exceptCache

upstream_get(k) ==
    IF ~upstream.up THEN <<"Transport">>
    ELSE IF k \in upstream.has THEN <<"Ok", Content(k)>>
    ELSE <<"NotFound">>

FetchDone(r) ==
    LET k == readers[r].key
        answer == upstream_get(k)
    IN  /\ readers[r].pc = "fetch"
        /\ readers' = [q \in Readers |->
                          IF q = r
                          THEN [readers[q] EXCEPT !.pc = "done", !.result = answer,
                                                  !.via = "upstream"]
                          ELSE IF readers[q].pc = "await" /\ readers[q].key = k
                          THEN [readers[q] EXCEPT !.pc = "done", !.result = answer,
                                                  !.via = "awaited"]
                          ELSE readers[q]]
        /\ inflight' = [inflight EXCEPT ![k] = None]
        /\ upstream' = [upstream EXCEPT !.serving[k] = @ \ {r}]
        /\ populating' = IF answer[1] = "Ok"
                         THEN [populating EXCEPT !.tasks =
                                  @ \cup {[key |-> k, content |-> answer[2]]}]
                         ELSE populating
        /\ UNCHANGED local
        /\ UNCHANGED exceptCache

(* The populate task ends without storing and without a failure. *)
PopulateDropped(k) ==
    \E task \in populating.tasks :
        /\ task.key = k
        /\ populating' = [populating EXCEPT !.tasks = @ \ {task}]
        /\ UNCHANGED <<readers, local, inflight, upstream>>
        /\ UNCHANGED exceptCache

Populate(k) ==
    \E task \in populating.tasks, stored \in BOOLEAN :
        /\ task.key = k
        /\ populating' = [tasks |-> populating.tasks \ {task},
                          failed |-> IF stored THEN populating.failed
                                     ELSE populating.failed \cup {k}]
        /\ local' = IF stored THEN [local EXCEPT ![k] = Some(task.content)]
                    ELSE local
        /\ UNCHANGED <<readers, inflight, upstream>>
        /\ UNCHANGED exceptCache

Return(r) ==
    /\ readers[r].pc = "done"
    /\ readers' = [readers EXCEPT ![r] = Idle]
    /\ UNCHANGED <<local, inflight, upstream, populating>>
    /\ UNCHANGED exceptCache

UpstreamDetach ==
    /\ upstream' = [upstream EXCEPT !.up = ~upstream.up]
    /\ UNCHANGED <<readers, local, inflight, populating>>
    /\ UNCHANGED exceptCache

CacheInit ==
    /\ inv = Aricebo(None)
    /\ lastOp = NoOp
    /\ signedOver = <<>>
    /\ EmptyStore
    /\ readers = [r \in Readers |-> Idle]
    /\ local = [k \in Keys |-> None]
    /\ inflight = [k \in Keys |-> None]
    /\ upstream = [has |-> {<<"invoice", "a/1.0.0">>}, up |-> TRUE,
                   serving |-> [k \in Keys |-> {}]]
    /\ populating = [tasks |-> {}, failed |-> {}]
    /\ NoVersion
    /\ NoDocument
    /\ NoClient
    /\ NoRequest

NextCache ==
    \/ \E r \in Readers, k \in Keys : CacheGet(r, k)
    \/ \E r \in Readers : LocalRead(r)
    \/ \E r \in Readers : AwaitOrFetch(r)
    \/ \E r \in Readers : FetchDone(r)
    \/ \E k \in Keys : Populate(k)
    \/ \E r \in Readers : Return(r)
    \/ UpstreamDetach

SpecCache ==
    /\ CacheInit
    /\ [][NextCache]_vars
    /\ \A k \in Keys : WF_vars(Populate(k))

(***************************************************************************)
(* version_compare.  A version is <<major, minor, patch>>; a requirement   *)
(* is the sequence of the characters of the string.  The requirements      *)
(* handed in are the empty string, a partial or full version behind one of *)
(* the operators "", "=", "= ", "^" and "~", and strings that are no       *)
(* requirement at all.  A parsed requirement is, as in the semver crate, a *)
(* list of predicates a version must all satisfy; a parse that fails       *)
(* gives None.                                                             *)
(***************************************************************************)
Numbers == 0..MaxNumber

Versions == Numbers \X Numbers \X Numbers

Digit(n) == ToString(n)

RECURSIVE Dotted(_)
Dotted(parts) ==
    IF Len(parts) = 1 THEN <<Digit(parts[1])>>
    ELSE <<Digit(parts[1]), ".">> \o Dotted(Tail(parts))

Partials == UNION {[1..n -> Numbers] : n \in 1..3}

Operators == {<<>>, <<"=">>, <<"=", " ">>, <<"^">>, <<"~">>}

Garbage ==
    {<<"%", "^", "&", "%", "^", "&", "%">>, <<"^">>, <<"~", "&">>,
     <<"1", ".", ".", "2">>}

Requirements ==
    {<<>>} \cup Garbage
           \cup {op \o Dotted(parts) : op \in Operators, parts \in Partials}

IsDigit(c) == \E n \in Numbers : c = Digit(n)

DigitValue(c) == CHOOSE n \in Numbers : c = Digit(n)

RECURSIVE SkipSpaces(_)
SkipSpaces(s) ==
    IF s # <<>> /\ Head(s) = " " THEN SkipSpaces(Tail(s)) ELSE s

RECURSIVE parse_numbers(_)
parse_numbers(s) ==
    IF s = <<>> \/ ~IsDigit(Head(s)) THEN None
    ELSE IF Len(s) = 1 THEN Some(<<DigitValue(s[1])>>)
    ELSE IF s[2] # "." THEN None
    ELSE LET rest == parse_numbers(SubSeq(s, 3, Len(s)))
         IN  IF ~rest.some THEN rest
             ELSE Some(<<DigitValue(s[1])>> \o rest.val)

parse_partial(s) ==
    LET parts == parse_numbers(s)
    IN  IF parts.some /\ Len(parts.val) > 3 THEN None
        ELSE parts

Pad(parts) ==
    <<parts[1],
      IF Len(parts) >= 2 THEN parts[2] ELSE 0,
      IF Len(parts) = 3 THEN parts[3] ELSE 0>>

Predicate(op, v) == [op |-> op, version |-> v]

Between(low, high) == <<Predicate("GtEq", low), Predicate("Lt", high)>>

BumpMajor(v) == <<v[1] + 1, 0, 0>>

BumpMinor(v) == <<v[1], v[2] + 1, 0>>

BumpPatch(v) == <<v[1], v[2], v[3] + 1>>

exact_range(parts) ==
    IF Len(parts) = 3 THEN <<Predicate("Ex", parts)>>
    ELSE IF Len(parts) = 2 THEN Between(Pad(parts), BumpMinor(Pad(parts)))
    ELSE Between(Pad(parts), BumpMajor(Pad(parts)))

tilde_range(parts) ==
    IF Len(parts) = 1 THEN Between(Pad(parts), BumpMajor(Pad(parts)))
    ELSE Between(Pad(parts), BumpMinor(Pad(parts)))

caret_range(parts) ==
    LET v == Pad(parts)
    IN  IF v[1] > 0 \/ Len(parts) = 1 THEN Between(v, BumpMajor(v))
        ELSE IF v[2] > 0 \/ Len(parts) = 2 THEN Between(v, BumpMinor(v))
        ELSE Between(v, BumpPatch(v))

Operator(range) ==
    IF range # <<>> /\ Head(range) \in {"=", "^", "~"} THEN Head(range)
    ELSE ""

Operand(range) ==
    IF Operator(range) = "" THEN range ELSE SkipSpaces(Tail(range))

(* VersionReq::parse, where a version without operator is a caret range. *)
parse_cargo(range) ==
    LET parts == parse_partial(Operand(range))
    IN  IF ~parts.some THEN parts
        ELSE IF Operator(range) = "=" THEN Some(exact_range(parts.val))
        ELSE IF Operator(range) = "~" THEN Some(tilde_range(parts.val))
        ELSE Some(caret_range(parts.val))

parse_compat(range) ==
    LET parts == parse_partial(Operand(range))
    IN  IF ~parts.some THEN parts
        ELSE IF Operator(range) = "^" THEN Some(caret_range(parts.val))
        ELSE IF Operator(range) = "~" THEN Some(tilde_range(parts.val))
        ELSE Some(exact_range(parts.val))

Less(a, b) ==
    \/ a[1] < b[1]
    \/ a[1] = b[1] /\ a[2] < b[2]
    \/ a[1] = b[1] /\ a[2] = b[2] /\ a[3] < b[3]

matches_predicate(p, v) ==
    IF p.op = "Ex" THEN v = p.version
    ELSE IF p.op = "Lt" THEN Less(v, p.version)
    ELSE ~Less(v, p.version)

matches(req, v) == \A i \in 1..Len(req) : matches_predicate(req[i], v)

version_compare(v, range) ==
    IF range = <<>> THEN TRUE
    ELSE LET req == parse_compat(range)
         IN  IF req.some THEN matches(req.val, v) ELSE FALSE

IdleInvoice ==
    /\ inv = Aricebo(None)
    /\ lastOp = NoOp
    /\ signedOver = <<>>

VersionCompare ==
    /\ ~matched.some
    /\ matched' = Some(version_compare(version, requirement))
    /\ UNCHANGED <<version, requirement>>
    /\ UNCHANGED exceptVersion

VersionInit ==
    /\ IdleInvoice
    /\ EmptyStore
    /\ IdleCache
    /\ NoDocument
    /\ NoClient
    /\ NoRequest
    /\ version \in Versions
    /\ requirement \in Requirements
    /\ matched = None

NextVersion == VersionCompare

SpecVersion == VersionInit /\ [][NextVersion]_vars

(***************************************************************************)
(* Groups and the conditions of parcels.  A TOML document is given by its  *)
(* [[group]] tables (their names), its [[parcel]] tables (their            *)
(* conditions, the label playing no part here) and whether it holds a key  *)
(* that Invoice does not know.                                             *)
(***************************************************************************)
GroupNames == {"", "images", "telescopes"}

GroupLists ==
    {None, Some(<<>>), Some(<<"images">>), Some(<<"telescopes">>),
     Some(<<"images", "telescopes">>)}

MemberLists ==
    {<<>>, <<"">>, <<"images">>, <<"telescopes">>,
     <<"images", "telescopes">>, <<"telescopes", "telescopes">>}

Conditions ==
    {None, Some([member_of |-> None])}
        \cup {Some([member_of |-> Some(groups)]) : groups \in MemberLists}

Parcels == [conditions : Conditions]

ParcelLists ==
    {None} \cup {Some(list) : list \in UNION {[1..n -> Parcels] : n \in 0..MaxParcels}}

Documents == [group : GroupLists, parcel : ParcelLists, unknown : BOOLEAN]

(* toml::from_str::<Invoice>: serde's derived Deserialize. *)
from_str(doc) ==
    IF doc.unknown THEN None
    ELSE Some([group |-> doc.group, parcel |-> doc.parcel])

(* is_global_group that takes a parcel with an empty memberOf for grouped. *)
is_global_group_without_list(self) ==
    IF self.conditions.some
    THEN IF self.conditions.val.member_of.some THEN FALSE ELSE TRUE
    ELSE TRUE

member_of(self, group) ==
    IF self.conditions.some
    THEN IF self.conditions.val.member_of.some
         THEN LET groups == self.conditions.val.member_of.val
              IN  \E i \in 1..Len(groups) : groups[i] = group
         ELSE FALSE
    ELSE FALSE

is_global_group(self) ==
    IF self.conditions.some
    THEN IF self.conditions.val.member_of.some
         THEN self.conditions.val.member_of.val = <<>>
         ELSE TRUE
    ELSE TRUE

has_group(self, name) ==
    LET groups == IF self.group.some THEN self.group.val ELSE <<>>
    IN  \E i \in 1..Len(groups) : groups[i] = name

RECURSIVE Filter(_, _)
Filter(list, name) ==
    IF list = <<>> THEN <<>>
    ELSE IF member_of(Head(list), name)
         THEN <<Head(list)>> \o Filter(Tail(list), name)
         ELSE Filter(Tail(list), name)

(* group_members that does not ask whether the group is declared. *)
group_members_of_any(self, name) == Filter(ParcelList(self), name)

group_members(self, name) ==
    IF ~has_group(self, name) THEN <<>>
    ELSE Filter(ParcelList(self), name)

LoadedParcels == IF loaded.some THEN ParcelList(loaded.val) ELSE <<>>

FromStr ==
    /\ ~loaded.some
    /\ loaded' = from_str(document)
    /\ UNCHANGED <<document, groupOp>>
    /\ UNCHANGED exceptGroup

MemberOf ==
    \E i \in 1..Len(LoadedParcels), group \in GroupNames :
        /\ groupOp' = [op |-> "member_of", parcel |-> i, group |-> group,
                       result |-> member_of(LoadedParcels[i], group)]
        /\ UNCHANGED <<document, loaded>>
        /\ UNCHANGED exceptGroup

IsGlobalGroup ==
    \E i \in 1..Len(LoadedParcels) :
        /\ groupOp' = [op |-> "is_global_group", parcel |-> i, group |-> "",
                       result |-> is_global_group(LoadedParcels[i])]
        /\ UNCHANGED <<document, loaded>>
        /\ UNCHANGED exceptGroup

GroupMembers ==
    \E name \in GroupNames :
        /\ loaded.some
        /\ groupOp' = [op |-> "group_members", parcel |-> 0, group |-> name,
                       result |-> group_members(loaded.val, name)]
        /\ UNCHANGED <<document, loaded>>
        /\ UNCHANGED exceptGroup

GroupInit ==
    /\ IdleInvoice
    /\ EmptyStore
    /\ IdleCache
    /\ NoVersion
    /\ NoClient
    /\ NoRequest
    /\ document \in Documents
    /\ loaded = None
    /\ groupOp = NoGroupOp

NextGroup == FromStr \/ MemberOf \/ IsGlobalGroup \/ GroupMembers

SpecGroup == GroupInit /\ [][NextGroup]_vars

(***************************************************************************)
(* The client commands info, get-invoice, get and yank.  The cache answers *)
(* get_invoice and get_yanked_invoice as the provider contract says        *)
(* (section 4.2); get_parcel answers Ok, NotFound, ProxyError carrying     *)
(* ParcelNotFound, ProxyError carrying another client error, or Io.        *)
(***************************************************************************)
ServedParcels == {<<>>, <<"2d71">>, <<"2d71", "3ffd">>, <<"2d71", "2d71">>}

Answers == {"Ok", "NotFound", "ParcelNotFound", "ProxyError", "Io"}

map_storage_error(e) ==
    IF e \in {"Io", "ProxyError", "ParcelNotFound"} THEN <<e, "">>
    ELSE <<"Other", e>>

(* The invoice read of info, get-invoice and get, with the provider call   *)
(* it goes through.                                                        *)
read_invoice(yanked) ==
    LET via == IF yanked THEN "get_invoice" ELSE "get_yanked_invoice"
        got == IF yanked THEN get_invoice(served)
               ELSE get_yanked_invoice(served)
    IN  [via |-> via, invoice |-> got.invoice,
         result |-> IF got.result = "Ok" THEN Ok
                    ELSE map_storage_error(got.result)]

Command(op, yanked, export, pc, read) ==
    [op |-> op, yanked |-> yanked, export |-> export, pc |-> pc,
     via |-> read.via, invoice |-> read.invoice, result |-> read.result]

CommandDone == cmd.pc = "done"

Info ==
    \E yanked \in BOOLEAN :
        /\ CommandDone
        /\ cmd' = Command("info", yanked, FALSE, "done", read_invoice(yanked))
        /\ tasks' = <<>>
        /\ parcels' = NoParcels
        /\ exported' = None
        /\ UNCHANGED served
        /\ UNCHANGED exceptClient

GetInvoiceCommand ==
    \E yanked \in BOOLEAN :
        /\ CommandDone
        /\ cmd' = Command("get-invoice", yanked, FALSE, "done",
                          read_invoice(yanked))
        /\ tasks' = <<>>
        /\ parcels' = NoParcels
        /\ exported' = None
        /\ UNCHANGED served
        /\ UNCHANGED exceptClient

Yank ==
    /\ CommandDone
    /\ served.some
    /\ served' = Some(yank(served.val))
    /\ cmd' = [NoCommand EXCEPT !.op = "yank"]
    /\ tasks' = <<>>
    /\ parcels' = NoParcels
    /\ exported' = None
    /\ UNCHANGED exceptClient

(* get_all up to join_all: the invoice is read, then one fetch is made for *)
(* each declared parcel, each holding a clone of the Arc of the map.       *)
GetAll ==
    \E yanked \in BOOLEAN, export \in BOOLEAN :
        LET read == read_invoice(yanked)
            list == IF read.result = Ok THEN read.invoice.val.parcel ELSE <<>>
        IN  /\ CommandDone
            /\ cmd' = Command("get", yanked, export,
                              IF read.result = Ok THEN "join_all" ELSE "done",
                              read)
            /\ tasks' = [i \in 1..Len(list) |->
                            [sha |-> list[i], pc |-> "get_parcel",
                             answer |-> "none", output |-> Ok]]
            /\ parcels' = IF read.result = Ok
                          THEN [keys |-> {}, refs |-> 1 + Len(list)]
                          ELSE NoParcels
            /\ exported' = None
            /\ UNCHANGED served
            /\ UNCHANGED exceptClient

(* A fetch that takes the proxy's ParcelNotFound for a failure. *)
tolerated_local_only(answer) == answer = "NotFound"

tolerated(answer) == answer \in {"NotFound", "ParcelNotFound"}

fetch_output(answer) ==
    IF answer = "Ok" \/ tolerated(answer) THEN Ok
    ELSE IF answer = "ProxyError" THEN <<"ProxyError", "">>
    ELSE <<"Other", answer>>

Drop(arc) == [arc EXCEPT !.refs = arc.refs - 1]

(* c.get_parcel(bindle_id, &sha).await and the match on its result. *)
FetchParcel ==
    \E i \in 1..Len(tasks), answer \in Answers :
        /\ tasks[i].pc = "get_parcel"
        /\ IF answer = "Ok" /\ cmd.export
           THEN /\ tasks' = [tasks EXCEPT ![i].pc = "insert",
                                          ![i].answer = answer]
                /\ UNCHANGED parcels
           ELSE /\ tasks' = [tasks EXCEPT ![i].pc = "done",
                                          ![i].answer = answer,
                                          ![i].output = fetch_output(answer)]
                /\ parcels' = Drop(parcels)
        /\ UNCHANGED <<served, cmd, exported>>
        /\ UNCHANGED exceptClient

(* parcels.lock().await.insert(sha, ...), the guard released at once; the  *)
(* fetch then ends and its clone of the Arc is dropped.                    *)
InsertParcel ==
    \E i \in 1..Len(tasks) :
        /\ tasks[i].pc = "insert"
        /\ tasks' = [tasks EXCEPT ![i].pc = "done",
                                  ![i].output = fetch_output(tasks[i].answer)]
        /\ parcels' = Drop([parcels EXCEPT !.keys = @ \cup {tasks[i].sha}])
        /\ UNCHANGED <<served, cmd, exported>>
        /\ UNCHANGED exceptClient

(* join_all that returns as soon as one fetch has ended. *)
join_any(fetches) ==
    fetches = <<>> \/ \E i \in 1..Len(fetches) : fetches[i].pc = "done"

join_all(fetches) == \A i \in 1..Len(fetches) : fetches[i].pc = "done"

Failed(fetches) == {i \in 1..Len(fetches) : fetches[i].output # Ok}

collect(fetches) ==
    IF Failed(fetches) = {} THEN Ok
    ELSE fetches[CHOOSE i \in Failed(fetches) :
                    \A j \in Failed(fetches) : i <= j].output

try_unwrap(arc) == IF arc.refs = 1 THEN Some(arc.keys) ELSE None

(* After join_all: the results are collected, and with --export the map is *)
(* unwrapped and written as a standalone bindle, which may fail.           *)
JoinAll ==
    \E written \in BOOLEAN :
        /\ cmd.pc = "join_all"
        /\ join_all(tasks)
        /\ IF collect(tasks) # Ok
           THEN /\ cmd' = [cmd EXCEPT !.pc = "done", !.result = collect(tasks)]
                /\ UNCHANGED exported
           ELSE IF ~cmd.export
           THEN /\ cmd' = [cmd EXCEPT !.pc = "done"]
                /\ UNCHANGED exported
           ELSE IF ~try_unwrap(parcels).some
           THEN /\ cmd' = [cmd EXCEPT !.pc = "done",
                                      !.result = <<"panic", "Unexpected lock error">>]
                /\ UNCHANGED exported
           ELSE IF written
           THEN /\ cmd' = [cmd EXCEPT !.pc = "done"]
                /\ exported' = try_unwrap(parcels)
           ELSE /\ cmd' = [cmd EXCEPT !.pc = "done", !.result = <<"Io", "">>]
                /\ UNCHANGED exported
        /\ UNCHANGED <<served, tasks, parcels>>
        /\ UNCHANGED exceptClient

ClientInit ==
    /\ IdleInvoice
    /\ EmptyStore
    /\ IdleCache
    /\ NoVersion
    /\ NoDocument
    /\ served \in {None} \cup {Some([parcel |-> list, yanked |-> FALSE]) :
                                  list \in ServedParcels}
    /\ cmd = NoCommand
    /\ tasks = <<>>
    /\ parcels = NoParcels
    /\ exported = None
    /\ NoRequest

NextClient ==
    \/ Info
    \/ GetInvoiceCommand
    \/ Yank
    \/ GetAll
    \/ FetchParcel
    \/ InsertParcel
    \/ JoinAll

SpecClient == ClientInit /\ [][NextClient]_vars

(***************************************************************************)
(* The v1 routes.  A request is its method, the segments of its path and   *)
(* its query string; a filter matches or rejects it.  routed is the set of *)
(* the handlers whose route matches the request.  Both query strings       *)
(* parse as an InvoiceQuery.                                               *)
(***************************************************************************)
Methods == {"GET", "HEAD", "POST", "DELETE"}

Segments == {"_i", "_q", "a", "1.0.0", "parcel", "2d71"}

Paths == UNION {[1..n -> Segments] : n \in 0..MaxSegments}

Queries == {"", "yanked=true"}

Requests == [method : Methods, path : Paths, query : Queries]

(* warp::path(segment): the first segment left is the one named. *)
path(segment, rest) == rest # <<>> /\ Head(rest) = segment

(* warp::path::end(): no segment is left. *)
end(rest) == rest = <<>>

query(req) == path("_q", req.path) /\ req.method = "GET"

create(req) ==
    path("_i", req.path) /\ end(Tail(req.path)) /\ req.method = "POST"

get(req) == path("_i", req.path) /\ req.method = "GET"

head(req) == path("_i", req.path) /\ req.method = "HEAD"

yank_route(req) == path("_i", req.path) /\ req.method = "DELETE"

Matching(req) ==
    {h \in {"query_invoices", "create_invoice", "get_invoice", "head_invoice",
            "yank_invoice"} :
        \/ h = "query_invoices" /\ query(req)
        \/ h = "create_invoice" /\ create(req)
        \/ h = "get_invoice" /\ get(req)
        \/ h = "head_invoice" /\ head(req)
        \/ h = "yank_invoice" /\ yank_route(req)}

Route ==
    /\ ~routed.some
    /\ routed' = Some(Matching(request))
    /\ UNCHANGED request
    /\ UNCHANGED exceptRoute

RouteInit ==
    /\ IdleInvoice
    /\ EmptyStore
    /\ IdleCache
    /\ NoVersion
    /\ NoDocument
    /\ NoClient
    /\ request \in Requests
    /\ routed = None

NextRoute == Route

SpecRoute == RouteInit /\ [][NextRoute]_vars

(***************************************************************************)
(* Vocabulary of the properties, stated on the entries themselves.         *)
(***************************************************************************)
Sigs == SignatureList(inv)

EncodedKey(k) == base64_encode(PublicBytes(k))

UniqueKeys(sigs) ==
    \A i, j \in 1..Len(sigs) : sigs[i].key = sigs[j].key => i = j

KeyDecodes(s) ==
    /\ s.key.b64
    /\ s.key.bytes.kind = "pk"

BlockDecodes(s) ==
    /\ s.signature.b64
    /\ BytesLen(s.signature.bytes) = 64

StrictlyVerifies(self, s) ==
    /\ KeyDecodes(s)
    /\ BlockDecodes(s)
    /\ s.signature.bytes = Ed25519Sign(s.key.bytes.k, cleartext(self, s.by, s.role))

Failing(self) ==
    {i \in 1..Len(SignatureList(self)) : ~StrictlyVerifies(self, SignatureList(self)[i])}

FirstFailing(self) == CHOOSE i \in Failing(self) : \A j \in Failing(self) : i <= j

KeyOnRing(s, keyring) == KeyDecodes(s) /\ s.key.bytes.k \in keyring

(***************************************************************************)
(* C1: sign fails with DuplicateSignature whenever a signature already on  *)
(* the invoice carries the base64 public key of the signing key pair,      *)
(* whatever the signer name and role.                                      *)
(***************************************************************************)
C1_DuplicateSignature ==
    [][(lastOp'.op = "sign" /\ HasKey(Sigs, EncodedKey(lastOp'.key)))
          => lastOp'.result[1] = "DuplicateSignature"]_vars

(***************************************************************************)
(* C2: a sign call on an invoice whose signatures have pairwise distinct   *)
(* keys leaves an invoice whose signatures have pairwise distinct keys.    *)
(***************************************************************************)
C2_KeysStayUnique ==
    [][(lastOp'.op = "sign" /\ UniqueKeys(Sigs))
          => UniqueKeys(SignatureList(inv'))]_vars

C2_Witness ==
    /\ lastOp.op = "sign"
    /\ lastOp.result[1] = "DuplicateSignature"
    /\ Len(Sigs) = 2
    /\ UniqueKeys(Sigs)
    /\ \E i \in 1..2 : signedOver[i].signed
    /\ \E i \in 1..2 : ~signedOver[i].signed

(***************************************************************************)
(* C3: when some signature of the invoice does not decode or does not      *)
(* verify strictly against its cleartext, verify is an error for every     *)
(* keyring; when the first such signature decodes, the error is Unverified *)
(* with the key of that signature.                                         *)
(***************************************************************************)
C3_AllOrNothing ==
    \A keyring \in Keyrings :
        Failing(inv) # {} =>
            LET s == Sigs[FirstFailing(inv)]
                r == verify(inv, keyring)
            IN  /\ IsErr(r)
                /\ (KeyDecodes(s) /\ BlockDecodes(s)) => r = Err("Unverified", s.key)

C3_Witness ==
    /\ Len(Sigs) = 2
    /\ StrictlyVerifies(inv, Sigs[1])
    /\ KeyDecodes(Sigs[2]) /\ BlockDecodes(Sigs[2])
    /\ ~StrictlyVerifies(inv, Sigs[2])
    /\ IsErr(verify(inv, {Sigs[1].key.bytes.k}))

C5_NoSignatures ==
    \A keyring \in Keyrings : Len(Sigs) = 0 => verify(inv, keyring) = Ok

(***************************************************************************)
(* C6: an invoice that was unsigned and whose signatures were all made by  *)
(* sign over the parcel list it has verifies Ok with the keyring of the    *)
(* signing keys, and with the keyring of any one of them.                  *)
(***************************************************************************)
SignedAsIs ==
    /\ Len(Sigs) >= 1
    /\ \A i \in 1..Len(Sigs) :
          signedOver[i].signed /\ signedOver[i].parcels = ParcelList(inv)

SigningKeys == {signedOver[i].key : i \in 1..Len(signedOver)}

C6_SignThenVerify ==
    SignedAsIs =>
        /\ verify(inv, SigningKeys) = Ok
        /\ \A k \in SigningKeys : verify(inv, {k}) = Ok

C6_Witness ==
    /\ SignedAsIs
    /\ Len(Sigs) = 2
    /\ Len(ParcelList(inv)) = 2
    /\ lastOp.op = "sign"
    /\ Cardinality(SigningKeys) = 2

(***************************************************************************)
(* C7: when verify fails on a signature that does not decode, the error    *)
(* carries the key string of that signature: CorruptKey when its key does  *)
(* not decode, CorruptSignature when its block does not decode (one of the *)
(* two when neither does).                                                 *)
(***************************************************************************)
C7_CorruptCarriesKey ==
    \A keyring \in Keyrings :
        LET r == verify(inv, keyring)
        IN  (Failing(inv) # {}) =>
              LET s == Sigs[FirstFailing(inv)]
              IN  /\ (~KeyDecodes(s) /\ BlockDecodes(s)) => r = Err("CorruptKey", s.key)
                  /\ (KeyDecodes(s) /\ ~BlockDecodes(s)) => r = Err("CorruptSignature", s.key)
                  /\ (~KeyDecodes(s) /\ ~BlockDecodes(s)) =>
                        r \in {Err("CorruptKey", s.key), Err("CorruptSignature", s.key)}
                  /\ r[1] \in {"CorruptKey", "CorruptSignature"} =>
                        (~KeyDecodes(s) \/ ~BlockDecodes(s)) /\ r[2] = s.key

C7_Witness ==
    /\ Len(Sigs) = 2
    /\ StrictlyVerifies(inv, Sigs[1])
    /\ KeyDecodes(Sigs[2])
    /\ ~BlockDecodes(Sigs[2])
    /\ Sigs[2].key # Sigs[1].key
    /\ verify(inv, {1}) = Err("CorruptSignature", Sigs[2].key)

(***************************************************************************)
(* C8: once sign has made a signature over a parcel list, verify is        *)
(* Unverified for every keyring whenever the ordered list of parcel sha256 *)
(* values differs from the list signed over.                               *)
(***************************************************************************)
C8_BindsParcelList ==
    \A keyring \in Keyrings :
        (\E i \in 1..Len(signedOver) :
            signedOver[i].signed /\ signedOver[i].parcels # ParcelList(inv))
        => verify(inv, keyring)[1] = "Unverified"

DeclaredSomewhere(sha256) ==
    \E id \in Ids : invoices[id].some /\ Declares(invoices[id].val, sha256)

C12_InvoiceNotFound ==
    [][(storeOp'.op = "create_parcel" /\ storeOp' # storeOp
           /\ ~DeclaredSomewhere(storeOp'.sha256))
         => /\ storeOp'.result = "InvoiceNotFound"
            /\ UNCHANGED <<invoices, parcelDat, uploading, phase, index>>]_vars

C12_Witness ==
    \E id \in Ids :
        /\ storeOp = Outcome("create_parcel", id, "0000", "InvoiceNotFound", <<>>, None)
        /\ invoices[id].some
        /\ Stored(id, "2d71")
        /\ ~invoices[id].val.yanked

(***************************************************************************)
(* C13: for a yanked invoice get_invoice fails with Yanked and             *)
(* get_yanked_invoice returns the invoice; for an invoice that is not      *)
(* yanked both return it; for an absent id both fail with NotFound.        *)
(***************************************************************************)
C13_YankedReads ==
    \A id \in Ids :
        (storeOp.id = id /\ storeOp.op \in {"get_invoice", "get_yanked_invoice"}) =>
            IF ~invoices[id].some
            THEN storeOp.result = "NotFound"
            ELSE IF invoices[id].val.yanked /\ storeOp.op = "get_invoice"
            THEN storeOp.result = "Yanked" /\ storeOp.invoice = None
            ELSE storeOp.result = "Ok" /\ storeOp.invoice = invoices[id]

C13_Witness ==
    \E id \in Ids :
        /\ storeOp.op = "get_invoice"
        /\ storeOp.id = id
        /\ storeOp.result = "Yanked"
        /\ invoices[id].val.parcel # <<>>
        /\ \E other \in Ids \ {id} : invoices[other].some /\ ~invoices[other].val.yanked

(***************************************************************************)
(* C14: an invoice that is yanked stays as it is in every later step; no   *)
(* step removes an invoice or changes its parcel list; a yank_invoice call *)
(* on a stored invoice is Ok, leaves it yanked and changes nothing else,   *)
(* and on a yanked invoice changes nothing at all.                         *)
(***************************************************************************)
C14_YankMonotonic ==
    [][\A id \in Ids :
         /\ (invoices[id].some /\ invoices[id].val.yanked)
               => invoices'[id] = invoices[id]
         /\ invoices[id].some
               => /\ invoices'[id].some
                  /\ invoices'[id].val.parcel = invoices[id].val.parcel
         /\ (storeOp'.op = "yank_invoice" /\ storeOp'.id = id /\ invoices[id].some)
               => /\ storeOp'.result = "Ok"
                  /\ invoices'[id].val.yanked
                  /\ \A other \in Ids \ {id} : invoices'[other] = invoices[other]
                  /\ UNCHANGED <<parcelDat, uploading, phase, index>>]_vars

C14_Witness ==
    \E id \in Ids :
        /\ storeOp = Outcome("create_parcel", id, "2d71", "Ok", <<>>, None)
        /\ invoices[id].val.yanked
        /\ invoices[id].val.parcel = <<Label("2d71", 1), Label("3ffd", 2)>>
        /\ phase[id] = AwaitingParcels({"3ffd"})

(***************************************************************************)
(* C15: a cache read answered by upstream returns upstream's content; the  *)
(* populate task it spawns leads to the local provider holding that        *)
(* content unless populating fails; what the local provider holds it       *)
(* keeps, and a read that finds the key there is answered by the local     *)
(* provider alone, without an upstream request, whether or not upstream    *)
(* answers.                                                                *)
(***************************************************************************)
UpstreamResultReturned ==
    /\ \A r \in Readers :
          (readers[r].via \in {"upstream", "awaited"} /\ readers[r].result[1] = "Ok")
             => readers[r].result = <<"Ok", Content(readers[r].key)>>
    /\ \A k \in Keys : local[k].some => local[k].val = Content(k)

LocalHitStaysLocal ==
    \A r \in Readers :
        /\ \A k \in Keys : local[k].some => local'[k] = local[k]
        /\ (readers[r].pc = "local" /\ readers'[r].pc # "local"
               /\ local[readers[r].key].some)
             => /\ readers'[r].pc = "done"
                /\ readers'[r].via = "local"
                /\ readers'[r].result \in {<<"Ok", Content(readers[r].key)>>, <<"Io">>}
                /\ upstream' = upstream
                /\ inflight' = inflight

OneFetchPerKey ==
    \A k \in Keys :
        /\ Cardinality(upstream.serving[k]) <= 1
        /\ inflight[k].some <=> upstream.serving[k] # {}
        /\ inflight[k].some =>
              /\ upstream.serving[k] = {inflight[k].val}
              /\ readers[inflight[k].val].pc = "fetch"
              /\ readers[inflight[k].val].key = k
        /\ \A q \in Readers :
              (readers[q].pc = "await" /\ readers[q].key = k) => inflight[k].some

AwaitsTheFetch ==
    \A q \in Readers :
        LET k == readers[q].key
        IN  /\ (readers[q].pc = "miss" /\ readers'[q].pc # "miss" /\ inflight[k].some)
                 => /\ readers'[q].pc = "await"
                    /\ upstream' = upstream
            /\ (readers[q].pc = "await" /\ readers'[q].pc # "await")
                 => /\ readers'[q].pc = "done"
                    /\ readers'[q].result = readers'[inflight[k].val].result
                    /\ readers'[inflight[k].val].via = "upstream"
                    /\ inflight'[k] = None
            /\ (readers[q].pc = "fetch" /\ readers'[q].pc # "fetch")
                 => inflight'[k] = None /\ upstream'.serving[k] = {}

C16_SingleFlight ==
    /\ []OneFetchPerKey
    /\ [][AwaitsTheFetch]_vars

C16_Witness ==
    \E r, q \in Readers :
        /\ readers[r].pc = "fetch"
        /\ readers[q].pc = "await"
        /\ readers[q].key = readers[r].key
        /\ upstream.serving[readers[r].key] = {r}

(***************************************************************************)
(* C20: in every invoice that toml::from_str accepts, each name in the     *)
(* memberOf of each parcel is the empty string or the name of a group the  *)
(* invoice declares.                                                       *)
(***************************************************************************)
DeclaredGroups(invoice) ==
    IF invoice.group.some
    THEN {invoice.group.val[i] : i \in 1..Len(invoice.group.val)}
    ELSE {}

MemberOfNames(parcel) ==
    IF parcel.conditions.some /\ parcel.conditions.val.member_of.some
    THEN {parcel.conditions.val.member_of.val[i] :
              i \in 1..Len(parcel.conditions.val.member_of.val)}
    ELSE {}

C20_MemberOfDeclared ==
    loaded.some =>
        \A i \in 1..Len(LoadedParcels) :
            MemberOfNames(LoadedParcels[i])
                \subseteq {""} \cup DeclaredGroups(loaded.val)

(***************************************************************************)
(* C19: is_global_group answers true exactly for a parcel without          *)
(* conditions, without memberOf, or with an empty memberOf; and of a       *)
(* parcel for which it answers true, member_of answers false whatever the  *)
(* group asked for.                                                        *)
(***************************************************************************)
Asked == LoadedParcels[groupOp.parcel]

GlobalMember(parcel) ==
    \/ parcel.conditions = None
    \/ parcel.conditions.val.member_of = None
    \/ parcel.conditions.val.member_of = Some(<<>>)

C19_GlobalGroup ==
    /\ groupOp.op = "is_global_group" =>
          (groupOp.result <=> GlobalMember(Asked))
    /\ groupOp.op = "member_of" /\ is_global_group(Asked) =>
          ~groupOp.result /\ GlobalMember(Asked)

C19_Witness ==
    /\ groupOp.op = "is_global_group"
    /\ groupOp.result
    /\ Asked.conditions = Some([member_of |-> Some(<<>>)])

(***************************************************************************)
(* C18: version_compare returns true exactly when the requirement is       *)
(* empty, or it parses as a requirement under the npm rules and the        *)
(* version satisfies it.  A string that is no requirement matches no       *)
(* version; a full version without operator matches that version alone;    *)
(* the requirements of test_version_comparisons answer as the test says.   *)
(***************************************************************************)
WellFormed == {op \o Dotted(parts) : op \in Operators, parts \in Partials}

Satisfies(v, range) ==
    parse_compat(range).some /\ matches(parse_compat(range).val, v)

ShouldPass ==
    {<<"=", " ", "1", ".", "2", ".", "3">>, <<"1", ".", "2", ".", "3">>,
     <<"^", "1", ".", "1">>, <<"~", "1", ".", "2">>, <<>>}

ShouldFail == {<<"2">>, <<"%", "^", "&", "%", "^", "&", "%">>}

C18_VersionCompare ==
    matched.some =>
        /\ requirement = <<>> => matched.val
        /\ requirement \notin WellFormed \cup {<<>>} => ~matched.val
        /\ \A v \in Versions :
              requirement = Dotted(v) => (matched.val <=> version = v)
        /\ requirement \in WellFormed =>
              (matched.val <=> Satisfies(version, requirement))
        /\ version = <<1, 2, 3>> /\ requirement \in ShouldPass => matched.val
        /\ version = <<1, 2, 3>> /\ requirement \in ShouldFail => ~matched.val

C18_Witness ==
    /\ matched.some
    /\ version = <<1, 2, 3>>
    /\ requirement = <<"1", ".", "2", ".", "0">>
    /\ ~matched.val

(***************************************************************************)
(* C17: a read that returns the invoice of an id sees the committed state  *)
(* (the invoice is indexed and is not taken back), a read that finds none  *)
(* sees the state before the create (the id is not indexed); when no       *)
(* create_invoice is under way the invoice file exists exactly when it is  *)
(* indexed.                                                                *)
(***************************************************************************)
C17_AtomicCreate ==
    \A id \in Ids :
        /\ (storeOp.id = id /\ storeOp.op \in {"get_invoice", "get_yanked_invoice"})
              => (storeOp.result \in {"Ok", "Yanked"} <=> id \in index)
        /\ ~creating[id].some => (invoices[id].some <=> id \in index)

(***************************************************************************)
(* C9: every file stored under parcel.dat/<sha256> holds bytes whose       *)
(* SHA-256 is <sha256>; a temporary file exists only while its upload is   *)
(* under way, so that a create_parcel call that has failed with            *)
(* DigestMismatch or SizeMismatch has left no file of its own.             *)
(***************************************************************************)
C9_ContentAddressed ==
    \A id \in Ids :
        /\ \A f \in parcelDat[id] :
              /\ ~f.tmp => Sha256(f.data) = f.name
              /\ f.tmp => /\ uploading[id].some
                          /\ uploading[id].val = [sha256 |-> f.name, bytes |-> f.data]
        /\ (storeOp.id = id /\ storeOp.result \in {"DigestMismatch", "SizeMismatch"})
              => /\ \A f \in parcelDat[id] : ~f.tmp
                 /\ storeOp.result = "SizeMismatch" => ~Stored(id, storeOp.sha256)

C9_Witness ==
    /\ storeOp.op = "create_parcel"
    /\ storeOp.result = "DigestMismatch"
    /\ storeOp.sha256 = "2d71"
    /\ parcelDat[storeOp.id] = {File("3ffd", FALSE, "yy")}

(***************************************************************************)
(* C10: create_invoice returns exactly the labels of the declared parcels  *)
(* that are not stored; a successful create_parcel of a missing sha256     *)
(* removes exactly that sha256 from the missing set and no step adds to    *)
(* it; the protocol state is AwaitingParcels with exactly the missing set  *)
(* while it is not empty, and Complete exactly when it is empty.           *)
(***************************************************************************)
MissingSet(id) ==
    {sha256 \in Digests : Declares(invoices[id].val, sha256) /\ ~Stored(id, sha256)}

DeclaredMissing(id) ==
    {l \in {invoices[id].val.parcel[i] : i \in 1..Len(invoices[id].val.parcel)} :
        ~Stored(id, l.sha256)}

TracksMissing ==
    \A id \in Ids :
        /\ phase[id] = Absent <=> ~invoices[id].some
        /\ invoices[id].some =>
              /\ phase[id] = Complete <=> MissingSet(id) = {}
              /\ MissingSet(id) # {} => phase[id] = AwaitingParcels(MissingSet(id))
        /\ (storeOp.op = "create_invoice" /\ storeOp.id = id /\ storeOp.result = "Ok")
              => {storeOp.missing[i] : i \in 1..Len(storeOp.missing)} = DeclaredMissing(id)

C10_MissingSet ==
    [][/\ TracksMissing'
       /\ \A id \in Ids :
             invoices[id].some =>
                /\ MissingSet(id)' \subseteq MissingSet(id)
                /\ (/\ storeOp'.op = "create_parcel"
                    /\ storeOp'.id = id
                    /\ storeOp'.result = "Ok"
                    /\ uploading[id].some)
                      => MissingSet(id)' = MissingSet(id) \ {storeOp'.sha256}]_vars

C10_Witness ==
    \E id \in Ids :
        /\ storeOp.op = "create_parcel"
        /\ storeOp.id = id
        /\ storeOp.result = "Ok"
        /\ phase[id] = AwaitingParcels({"3ffd"})
        /\ invoices[id].val.parcel = <<Label("2d71", 1), Label("3ffd", 2)>>
        /\ Stored(id, "2d71")
(***************************************************************************)
(* C21: the text sign signs for (by, role) is by, the name, the version,   *)
(* the role in lower case and "~", then the sha256 of every parcel in the  *)
(* order of the list, each on a line of its own; an absent parcel list     *)
(* and an empty one both add no line; and verify rebuilds the same text,   *)
(* so that each signature checks against it while the list is as signed.   *)
(***************************************************************************)
LowerCaseName == [Creator |-> "creator", Proxy |-> "proxy", Host |-> "host"]

RECURSIVE ParcelLines(_)
ParcelLines(list) ==
    IF list = <<>> THEN "" ELSE "\n" \o Head(list) \o ParcelLines(Tail(list))

SigningText(self, by, role, list) ==
    by \o "\n" \o self.name \o "\n" \o self.version \o "\n"
       \o LowerCaseName[role] \o "\n" \o "~" \o ParcelLines(list)

C21_Cleartext ==
    /\ \A i \in 1..Len(Sigs) :
          signedOver[i].signed =>
              Sigs[i].signature.bytes.m =
                  SigningText(inv, Sigs[i].by, Sigs[i].role, signedOver[i].parcels)
    /\ \A i \in 1..Len(Sigs) :
          (signedOver[i].signed /\ signedOver[i].parcels = ParcelList(inv)) =>
              verify_signature(Sigs[i],
                  SigningText(inv, Sigs[i].by, Sigs[i].role, ParcelList(inv))) = Ok
    /\ (\A i \in 1..Len(Sigs) :
          signedOver[i].signed /\ signedOver[i].parcels = ParcelList(inv)) =>
              verify(inv, {}) \in {Ok, Err("NoKnownKey", NotBase64)}

C21_Witness ==
    /\ Len(Sigs) = 2
    /\ signedOver[1].signed /\ signedOver[1].parcels = <<>>
    /\ signedOver[2].signed /\ signedOver[2].parcels = <<"aaa", "aaa\naaa">>

(***************************************************************************)
(* C22: a sign that returns Ok leaves an invoice whose signature list is   *)
(* the list before the call (none when it was absent) followed by one      *)
(* entry carrying the signer name, the base64 public key and the role      *)
(* given; every other field of the invoice is as before the call.          *)
(***************************************************************************)
SignAppends ==
    LET before == SignatureList(inv)
        after == SignatureList(inv')
    IN  /\ inv'.signature.some
        /\ Len(after) = Len(before) + 1
        /\ SubSeq(after, 1, Len(before)) = before
        /\ after[Len(after)].by = lastOp'.by
        /\ after[Len(after)].key = base64_encode(PublicBytes(lastOp'.key))
        /\ after[Len(after)].role = lastOp'.role
        /\ [inv' EXCEPT !.signature = inv.signature] = inv

C22_SignAppends ==
    [][(lastOp'.op = "sign" /\ lastOp'.result = Ok) => SignAppends]_vars

C22_Witness ==
    /\ lastOp.op = "sign"
    /\ lastOp.result = Ok
    /\ Len(Sigs) = 2
    /\ ~signedOver[1].signed
    /\ signedOver[2].signed
    /\ Sigs[1].key # Sigs[2].key

(***************************************************************************)
(* C23: group_members(name) is the list of the parcels whose memberOf      *)
(* holds name, in the order of the parcel list, when the invoice declares  *)
(* a group of that name; it is the empty list when it declares none, even  *)
(* when parcels name the group.                                            *)
(***************************************************************************)
InGroup(parcel) == groupOp.group \in MemberOfNames(parcel)

C23_GroupMembers ==
    groupOp.op = "group_members" =>
        IF groupOp.group \in DeclaredGroups(loaded.val)
        THEN groupOp.result = SelectSeq(LoadedParcels, InGroup)
        ELSE groupOp.result = <<>>

C23_Witness ==
    /\ groupOp.op = "group_members"
    /\ groupOp.group = "telescopes"
    /\ Len(LoadedParcels) = 2
    /\ groupOp.result = LoadedParcels
    /\ LoadedParcels[1] # LoadedParcels[2]

(***************************************************************************)
(* C24: info, get-invoice and get return a yanked invoice only when the    *)
(* yanked option of the command is set: without the option the invoice is  *)
(* read through get_invoice, with it through get_yanked_invoice.           *)
(***************************************************************************)
C24_YankedOption ==
    cmd.op \in {"info", "get-invoice", "get"} =>
        /\ (cmd.invoice.some /\ cmd.invoice.val.yanked) => cmd.yanked
        /\ cmd.via = IF cmd.yanked THEN "get_yanked_invoice" ELSE "get_invoice"

(***************************************************************************)
(* C25: get fetches every declared parcel and tolerates the missing ones.  *)
(* As stated: once the invoice is read, the command is Ok exactly when     *)
(* each fetch is Ok or fails with NotFound or the proxy's ParcelNotFound,  *)
(* and when it fails no standalone bindle is written.                      *)
(* As amended: a fetch failing otherwise fails the command, with nothing   *)
(* written; when no fetch does, the command is Ok, unless the standalone   *)
(* bindle asked for cannot be written.                                     *)
(***************************************************************************)
GetDone == cmd.op = "get" /\ cmd.pc = "done" /\ cmd.invoice.some

EveryParcelFetched ==
    /\ Len(tasks) = Len(cmd.invoice.val.parcel)
    /\ \A i \in 1..Len(tasks) :
          tasks[i].sha = cmd.invoice.val.parcel[i] /\ tasks[i].answer \in Answers

HardFailures ==
    {i \in 1..Len(tasks) :
        tasks[i].answer \notin {"Ok", "NotFound", "ParcelNotFound"}}

C25_Original ==
    GetDone =>
        /\ EveryParcelFetched
        /\ cmd.result # Ok <=> HardFailures # {}
        /\ cmd.result # Ok => exported = None

C25_ToleratesMissing ==
    GetDone =>
        /\ EveryParcelFetched
        /\ HardFailures # {} => cmd.result # Ok /\ exported = None
        /\ HardFailures = {} =>
              \/ cmd.result = Ok
              \/ cmd.export /\ cmd.result = <<"Io", "">> /\ exported = None

C25_Witness ==
    /\ GetDone
    /\ cmd.result = Ok
    /\ Len(tasks) = 2
    /\ tasks[1].answer = "ParcelNotFound"
    /\ tasks[2].answer = "Ok"
    /\ exported = Some({"3ffd"})

(***************************************************************************)
(* C27: in get with --export every parcel fetch has ended, and has dropped *)
(* its reference to the shared map, before the map is unwrapped: the       *)
(* unwrap never panics, in whatever order the fetches run, and the bindle  *)
(* written holds exactly the sha256 of the parcels fetched with success.   *)
(***************************************************************************)
Running == {i \in 1..Len(tasks) : tasks[i].pc # "done"}

Fetched == {tasks[i].sha : i \in {j \in 1..Len(tasks) : tasks[j].answer = "Ok"}}

C27_UnwrapAfterJoin ==
    /\ cmd.result[1] # "panic"
    /\ (cmd.op = "get" /\ cmd.invoice.some) =>
          parcels.refs = 1 + Cardinality(Running)
    /\ GetDone => Running = {}
    /\ exported.some => cmd.export /\ GetDone /\ exported.val = Fetched

C27_Witness ==
    /\ GetDone
    /\ cmd.export
    /\ Len(tasks) = 2
    /\ exported = Some({"2d71", "3ffd"})
    /\ parcels.refs = 1

(***************************************************************************)
(* C26: a GET on /_i/{name}/{version}/parcel/{sha256} is not handled by    *)
(* the handler that fetches invoices, a GET on /_i/{name}/{version} is,    *)
(* and no request matches more than one of the v1 routes.                  *)
(***************************************************************************)
ParcelPath(p) == Len(p) = 5 /\ p[1] = "_i" /\ p[4] = "parcel"

InvoicePath(p) == Len(p) = 3 /\ p[1] = "_i"

AtMostOneRoute == routed.some => Cardinality(routed.val) <= 1

C26_ParcelRoutes ==
    routed.some =>
        /\ (request.method = "GET" /\ ParcelPath(request.path)) =>
              "get_invoice" \notin routed.val
        /\ (request.method = "GET" /\ InvoicePath(request.path)) =>
              routed.val = {"get_invoice"}
        /\ AtMostOneRoute

(***************************************************************************)
(* C28: a sign that fails, with DuplicateSignature or any other error,     *)
(* leaves the invoice as it was, the signature list included, so that      *)
(* verify answers the same before and after the call for every keyring.    *)
(***************************************************************************)
C28_FailedSignKeeps ==
    [][(lastOp'.op = "sign" /\ lastOp'.result # Ok) =>
          /\ inv' = inv
          /\ \A keyring \in Keyrings :
                verify(inv', keyring) = verify(inv, keyring)]_vars

C28_Witness ==
    /\ lastOp.op = "sign"
    /\ lastOp.result = Err("DuplicateSignature", NotBase64)
    /\ Len(Sigs) = 1
    /\ verify(inv, {lastOp.key}) = Ok

(***************************************************************************)
(* C29: verify reads the name, the version, the sha256 of the parcels in   *)
(* order, and by, role, key and signature of each signature, and nothing   *)
(* else of the invoice: a change that keeps these (the yanked flag, the    *)
(* annotations, the groups, the rest of a label, the time of a signature)  *)
(* keeps the answer of verify for every keyring.                           *)
(***************************************************************************)
Signed(self) ==
    [i \in 1..Len(SignatureList(self)) |->
        [by |-> SignatureList(self)[i].by,
         role |-> SignatureList(self)[i].role,
         key |-> SignatureList(self)[i].key,
         signature |-> SignatureList(self)[i].signature]]

Verified(self) ==
    <<self.name, self.version, ParcelList(self), self.signature.some,
      Signed(self)>>

C29_VerifyReads ==
    [][Verified(inv') = Verified(inv) =>
          \A keyring \in Keyrings :
              verify(inv', keyring) = verify(inv, keyring)]_vars

C29_Witness ==
    /\ inv.yanked = Some(TRUE)
    /\ inv.annotations # None
    /\ inv.group # None
    /\ Len(inv.labels) = 1 /\ inv.labels[1] = OtherLabel
    /\ Len(Sigs) = 2
    /\ Sigs[1].at = 0
    /\ verify(inv, {1}) = Ok

(***************************************************************************)
(* C30: the cleartext of the invoice for one signer differs from the       *)
(* cleartext of an invoice of the same id for any other tuple of signer    *)
(* name, role and ordered list of parcel sha256 values, so a signature     *)
(* made over the one is never accepted for the other.                      *)
(***************************************************************************)
Sha256Lists == UNION {[1..n -> Sha256Strings] : n \in 0..MaxParcels}

SigningTuple(self, signer) == <<signer[1], self.name, self.version, signer[2], ParcelList(self)>>

C30_Unambiguous ==
    \A signer \in Signers, other \in Signers, list \in Sha256Lists, key \in Keypairs :
        LET that == [inv EXCEPT !.parcel = Some(list)]
        IN  SigningTuple(inv, signer) # SigningTuple(that, other)
            => /\ cleartext(inv, signer[1], signer[2]) # cleartext(that, other[1], other[2])
               /\ ~verify_strict(key, cleartext(that, other[1], other[2]),
                                 Ed25519Sign(key, cleartext(inv, signer[1], signer[2])))

====
